---- MODULE Spec2Model ----
(***************************************************************************)
(* State-machine model of the irrigation controller (nic).                 *)
(*                                                                         *)
(* The model follows src/nic/src/watering/state_machine.rs (StateMachine), *)
(* src/nic/src/watering/ds.rs (DailyPlan, Cycle, WaterSector) and          *)
(* src/nic/src/watering/water_window.rs (WaterWin).                        *)
(*                                                                         *)
(* Time is in seconds, scaled: a day has DaySecs seconds.  Sector progress *)
(* is counted in per-second increments (one unit = sprinkler_debit/3600).  *)
(***************************************************************************)
EXTENDS Integers, Sequences, FiniteSets, TLC

\* ----------------------------------------------------------------- bounds
MaxTime      == 8     \* the last tick the model runs
NumSectors   == 2      \* sectors in the catalog
DaySecs      == 6      \* seconds of a (scaled) day, 86_400 in the code
WinStartSecs == 3      \* hour_start * 3600 of the window, scaled
WinDurSecs   == 5      \* duration_hours * 3600 of the window, scaled
SectorTransitionSecs == 1  \* SECTOR_TRANSITION_SECS (20 s), scaled
MinWateringSecs == 1   \* the planner's threshold of 300 s, scaled
WeeklyTarget == 4      \* weekly_target of a sector, in progress units
MaxDuration  == 2      \* max_duration of a sector, in seconds
NewWeekBump  == 4      \* the 2.5 cm of a new week, in progress units

\* usize::MAX, the "before the first sector" value of Cycle::curr_sector
UsizeMax == -1

Sectors == 1..NumSectors
Modes   == {"Auto", "Manual", "Wizard"}
WeatherSignals == {"RainStart", "RainStop", "HighWind", "LowWind"}

\* CtrlSignal: the signals handle_signal tells apart, and one of those it ignores
CtrlSignals ==
    {[kind |-> "Weather", weather |-> w] : w \in WeatherSignals}
    \cup {[kind |-> "ChgMode", mode |-> md] : md \in Modes}
    \cup {[kind |-> "StopMachine"], [kind |-> "GetState"]}

VARIABLES
    now,          \* the current_time of the last call into the machine
    phase,        \* "boundary": update(now) has run; "tick": the tick at now is in progress
    op,           \* the last operation and its input
    state,        \* StateMachine::state
    current_mode, \* StateMachine::current_mode
    cycle,        \* StateMachine::cycle
    auto_plan,    \* StateMachine::mode_auto.daily_plan
    wizard_plan,  \* StateMachine::mode_wizard.daily_plan
    timeframe,    \* StateMachine::timeframe
    sectors,      \* StateMachine::sectors (progress, last_water)
    auto_schedule,\* StateMachine::auto_schedule
    valves,       \* sectors the controller was told to activate and not yet to deactivate
    events,       \* WateringEvents passed to db.log_watering_event
    completed,    \* WaterSectors that ran to their end (deactivated by update)
    panicked,     \* the machine hit a panic
    sector_order, \* the iteration order of the sectors HashMap
    signalled,    \* the dispatcher took the signal of this tick
    last_day,     \* the dispatcher's marker of the last daily adjustment
    bus,          \* the broadcast channel: signals sent and not yet received
    sent,         \* every signal a producer sent, in order
    dispatched,   \* every signal the dispatcher handed to handle_signal, in order
    ctrl_ok,      \* the sensor controller answers Ok (TRUE) or Err (FALSE)
    hw            \* the valves the sensor controller really switched on

\* the lock-based WateringSystem (watering_system.rs, mode_wizard.rs, api.rs)
VARIABLES
    paused_state,        \* ModeWizard::paused_state of the active mode
    current_instruction, \* WateringStateMachine::current_instruction
    locks,               \* the RwLocks state_machine and active_mode: writer and readers
    pc                   \* where the get_state handler and the dispatcher stand

lockvars == <<paused_state, current_instruction, locks, pc>>

vars == <<now, phase, op, state, current_mode, cycle, auto_plan, wizard_plan,
          timeframe, sectors, auto_schedule, valves, events, completed, panicked,
          sector_order, signalled, last_day, bus, sent, dispatched, ctrl_ok, hw,
          paused_state, current_instruction, locks, pc>>

NoTask == "none"
NoLocks ==
    [state_machine |-> [w |-> NoTask, r |-> {}], active_mode |-> [w |-> NoTask, r |-> {}]]

\* WateringSystem::new: no snapshot, no lock held, no request and no signal in progress
LockInit ==
    /\ paused_state = [some |-> FALSE]
    /\ current_instruction = 0
    /\ locks = NoLocks
    /\ pc = [http |-> "idle", disp |-> "signals", signal |-> [kind |-> "none"]]

\* ------------------------------------------------------------ data (ds.rs)
WS(i, s, d) == [id |-> i, start |-> s, duration |-> d]

Idle == [tag |-> "Idle"]
Watering(sec) == [tag |-> "Watering", ws |-> sec]
Paused(prior, sigs) == [tag |-> "Paused", state |-> prior, signals |-> sigs]

NoCycle == [some |-> FALSE]
NoSector == [some |-> FALSE]

sod(ts) == ts - (ts % DaySecs)

\* chrono weekday of a timestamp, as days from Monday (day 0 of the epoch is a Thursday)
get_week_day_from_ts(t) == ((t \div DaySecs) + 3) % 7

\* Vec::sort_by_key(|sector| sector.start): a stable sort
RECURSIVE InsertByStart(_, _)
InsertByStart(sec, sorted) ==
    IF sorted = <<>> THEN <<sec>>
    ELSE IF sec.start < Head(sorted).start THEN <<sec>> \o sorted
    ELSE <<Head(sorted)>> \o InsertByStart(sec, Tail(sorted))

RECURSIVE SortByStart(_)
SortByStart(plan) ==
    IF plan = <<>> THEN <<>>
    ELSE InsertByStart(plan[Len(plan)], SortByStart(SubSeq(plan, 1, Len(plan) - 1)))

\* is_watering_time with the comparison made strict: a plan is not due on the second it starts
is_watering_time_strict(plan, current_time) ==
    plan # <<>> /\ plan[1].start < current_time

is_watering_time(plan, current_time) ==
    IF plan = <<>> THEN FALSE ELSE plan[1].start <= current_time

build(plan) ==
    [some |-> TRUE, id |-> plan[1].start, daily_plan |-> plan, curr_sector |-> UsizeMax]

get_cycle(plan, current_time) ==
    IF is_watering_time(plan, current_time) THEN build(plan) ELSE NoCycle

wrapping_add_1(i) == IF i = UsizeMax THEN 0 ELSE i + 1

\* next_sector of a cycle whose index starts at 0: the first call returns the second sector
next_sector_from_zero(c) ==
    LET i == IF c.curr_sector = UsizeMax THEN 1 ELSE c.curr_sector + 1 IN
    [cycle |-> [c EXCEPT !.curr_sector = i],
     res   |-> IF i < Len(c.daily_plan)
                  THEN [some |-> TRUE, ws |-> c.daily_plan[i + 1]]
                  ELSE NoSector]

\* Cycle::next_sector: the cycle after the call and the sector it returns
next_sector(c) ==
    LET i == wrapping_add_1(c.curr_sector) IN
    [cycle |-> [c EXCEPT !.curr_sector = i],
     res   |-> IF i < Len(c.daily_plan)
                  THEN [some |-> TRUE, ws |-> c.daily_plan[i + 1]]
                  ELSE NoSector]

\* ------------------------------------------------- window (water_window.rs)
WaterWin_new(current_time) ==
    [day_start_time |-> sod(current_time) + WinStartSecs,
     day_end_time   |-> sod(current_time) + WinStartSecs + WinDurSecs - 1]

next_mut(w) ==
    [day_start_time |-> w.day_start_time + DaySecs,
     day_end_time   |-> w.day_end_time + DaySecs]

roll_window(w, current_time) ==
    IF current_time > w.day_end_time THEN next_mut(w) ELSE w

\* is_within with the end of the window left out
is_within_exclusive_end(w, time) == time >= w.day_start_time /\ time < w.day_end_time

is_within(w, time) == time >= w.day_start_time /\ time <= w.day_end_time

\* ------------------------------------------- schedule (state_machine.rs)
RECURSIVE load_auto_schedule(_, _)
load_auto_schedule(schedule, current_time) ==
    IF schedule = <<>> THEN <<>>
    ELSE LET e == Head(schedule)
             rest == load_auto_schedule(Tail(schedule), current_time)
         IN IF e.weekday = get_week_day_from_ts(current_time)
               THEN <<SortByStart([i \in 1..Len(e.start_times) |->
                          WS(e.start_times[i].id,
                             sod(current_time) + e.start_times[i].start,
                             e.start_times[i].duration)])>> \o rest
               ELSE rest

\* ------------------------------------------- planner (watering_alg.rs)
Max(a, b) == IF a >= b THEN a ELSE b
Min(a, b) == IF a <= b THEN a ELSE b

\* the catalog entry of sector i (SectorInfo), without progress and last_water; every
\* sector has the same sprinkler_debit, so one progress unit serves them all
SectorCfg(i) ==
    [id |-> i, weekly_target |-> WeeklyTarget + (i - 1), max_duration |-> MaxDuration,
     percolation |-> i % 2]

\* adjust_daily_sector_progress without the floor at zero
adjust_daily_sector_progress_unclamped(progress, percolation, daily_et, daily_rain, new_week) ==
    LET adjustment == daily_et - daily_rain + (IF new_week THEN NewWeekBump ELSE 0)
    IN progress - adjustment - Max(percolation, 0)

\* progress after a day: evapotranspiration, rain, percolation and the new-week term
adjust_daily_sector_progress(progress, percolation, daily_et, daily_rain, new_week) ==
    LET adjustment == daily_et - daily_rain + (IF new_week THEN NewWeekBump ELSE 0)
    IN Max(progress - adjustment - Max(percolation, 0), 0)

\* seconds of irrigation the sector still needs, at most max_duration; None when the target is met
calc_irrigation_time(sector) ==
    LET remaining_target == sector.weekly_target - sector.progress IN
    IF remaining_target <= 0 THEN [some |-> FALSE]
    ELSE [some |-> TRUE, val |-> Min(remaining_target, sector.max_duration)]

\* the loop of get_next_watering_for_day over the sectors at the positions idx
RECURSIVE water_sectors(_, _, _, _, _, _, _)
water_sectors(secs, idx, water_time, remaining_days, morning, plan, need_evening) ==
    IF idx = <<>> THEN [sectors |-> secs, plan |-> plan, need_evening |-> need_evening]
    ELSE
      LET k == Head(idx)
          sector == secs[k]
          remaining_weekly_need == Max(sector.weekly_target - sector.progress, 0)
          daily_capacity == sector.max_duration
      IN IF remaining_weekly_need <= daily_capacity * (remaining_days - 1)
            THEN water_sectors(secs, Tail(idx), water_time, remaining_days, morning,
                               plan, need_evening)
            ELSE
              LET evening == need_evening
                             \/ remaining_weekly_need > daily_capacity * remaining_days
                  time == calc_irrigation_time(sector)
                  secs_irrigation_time == IF time.some THEN time.val ELSE 0
                  proposed_start ==
                      IF morning
                         THEN water_time - secs_irrigation_time - SectorTransitionSecs
                         ELSE water_time
              IN IF secs_irrigation_time <= MinWateringSecs
                    THEN water_sectors(secs, Tail(idx), water_time, remaining_days, morning,
                                       plan, evening)
                    ELSE water_sectors(
                            [secs EXCEPT ![k].progress = @ + secs_irrigation_time],
                            Tail(idx),
                            IF morning THEN proposed_start
                            ELSE water_time + secs_irrigation_time + SectorTransitionSecs,
                            remaining_days, morning,
                            Append(plan, WS(sector.id, proposed_start, secs_irrigation_time)),
                            evening)

\* the sectors in reverse for the morning pass, packed back from the end of the window;
\* in order for the evening pass, packed from its start.  An empty plan stands for None.
get_next_watering_for_day(secs, tf, remaining_days, morning) ==
    water_sectors(secs,
                  IF morning THEN [i \in 1..Len(secs) |-> Len(secs) + 1 - i]
                             ELSE [i \in 1..Len(secs) |-> i],
                  IF morning THEN tf.day_end_time ELSE tf.day_start_time,
                  remaining_days, morning, <<>>, FALSE)

\* the loop of generate_daily_plan, from rem_days down to 0
RECURSIVE generate_days(_, _, _)
generate_days(secs, rem_days, tf) ==
    IF rem_days < 0 THEN <<>>
    ELSE IF ~(\A i \in 1..Len(secs) : secs[i].weekly_target > secs[i].progress)
         THEN generate_days(secs, rem_days - 1, next_mut(tf))
    ELSE
      LET am == get_next_watering_for_day(secs, tf, rem_days, TRUE)
          pm == get_next_watering_for_day(am.sectors, next_mut(tf), rem_days, FALSE)
          plans == (IF am.plan # <<>> THEN <<am.plan>> ELSE <<>>)
                   \o (IF am.need_evening /\ pm.plan # <<>> THEN <<pm.plan>> ELSE <<>>)
      IN IF plans # <<>> THEN plans
         ELSE generate_days(IF am.need_evening THEN pm.sectors ELSE am.sectors,
                            rem_days - 1, next_mut(tf))

generate_daily_plan(secs, remaining_days, tf) ==
    generate_days(secs, remaining_days - 1, tf)

\* 7 - num_days_from_sunday
calculate_remaining_days(current_time) ==
    7 - ((get_week_day_from_ts(current_time) + 1) % 7)

\* calc_daily_plan that leaves each plan in the order the pass pushed its sectors
calc_daily_plan_unsorted(secs, current_time, tf) ==
    generate_daily_plan(secs, calculate_remaining_days(current_time), tf)

calc_daily_plan(secs, current_time, tf) ==
    LET plans == generate_daily_plan(secs, calculate_remaining_days(current_time), tf)
    IN [i \in 1..Len(plans) |-> SortByStart(plans[i])]

\* ---------------------------------------------- the machine as a record
Self ==
    [state |-> state, current_mode |-> current_mode, cycle |-> cycle,
     auto_plan |-> auto_plan, wizard_plan |-> wizard_plan, timeframe |-> timeframe,
     sectors |-> sectors, auto_schedule |-> auto_schedule, valves |-> valves,
     events |-> events, panicked |-> panicked, ctrl_ok |-> ctrl_ok, hw |-> hw]

Store(m) ==
    /\ state' = m.state
    /\ current_mode' = m.current_mode
    /\ cycle' = m.cycle
    /\ auto_plan' = m.auto_plan
    /\ wizard_plan' = m.wizard_plan
    /\ timeframe' = m.timeframe
    /\ sectors' = m.sectors
    /\ auto_schedule' = m.auto_schedule
    /\ valves' = m.valves
    /\ events' = m.events
    /\ panicked' = m.panicked
    /\ ctrl_ok' = m.ctrl_ok
    /\ hw' = m.hw

\* is_auto_or_wizard that lets Manual through
is_auto_or_wizard_or_manual(m) == m.current_mode \in {"Auto", "Wizard", "Manual"}

is_auto_or_wizard(m) == m.current_mode \in {"Auto", "Wizard"}

\* activate_sector that gives up when the controller answers Err
activate_sector_fail_fast(m, sec) ==
    IF m.ctrl_ok
       THEN [m EXCEPT !.state = Watering(sec), !.valves = @ \cup {sec.id},
                      !.hw = @ \cup {sec.id}]
       ELSE m

\* the state is Watering(sec) whatever the controller answers; an Err is only logged
activate_sector(m, sec) ==
    [m EXCEPT !.state = Watering(sec), !.valves = @ \cup {sec.id},
              !.hw = IF m.ctrl_ok THEN @ \cup {sec.id} ELSE @]

deactivate_sector(m, current_time, sec) ==
    [m EXCEPT !.sectors[sec.id].last_water = current_time,
              !.valves = @ \ {sec.id},
              !.hw = IF m.ctrl_ok THEN @ \ {sec.id} ELSE @]

update_active_sector(m, sec, current_time) ==
    LET elapsed_secs == current_time - sec.start IN
    IF elapsed_secs >= sec.duration
       THEN [m EXCEPT !.events = Append(@, [sector |-> sec, mode |-> m.current_mode,
                                            elapsed |-> elapsed_secs])]
       ELSE [m EXCEPT !.sectors[sec.id].progress = @ + 1]

\* stop that forgets to drop the cycle
stop_keeps_cycle(m) ==
    CASE m.current_mode = "Auto" ->
            IF m.auto_plan = <<>> THEN [m EXCEPT !.panicked = TRUE]
            ELSE [m EXCEPT !.auto_plan = Tail(@), !.state = Idle]
      [] m.current_mode = "Wizard" ->
            IF m.wizard_plan = <<>> THEN [m EXCEPT !.panicked = TRUE]
            ELSE [m EXCEPT !.wizard_plan = Tail(@), !.state = Idle]
      [] OTHER -> [m EXCEPT !.state = Idle]

\* Vec::remove(0) panics on an empty list: the cycle is already None, the state is not yet Idle
stop(m) ==
    LET m1 == [m EXCEPT !.cycle = NoCycle] IN
    CASE m.current_mode = "Auto" ->
            IF m1.auto_plan = <<>> THEN [m1 EXCEPT !.panicked = TRUE]
            ELSE [m1 EXCEPT !.auto_plan = Tail(@), !.state = Idle]
      [] m.current_mode = "Wizard" ->
            IF m1.wizard_plan = <<>> THEN [m1 EXCEPT !.panicked = TRUE]
            ELSE [m1 EXCEPT !.wizard_plan = Tail(@), !.state = Idle]
      [] OTHER -> [m1 EXCEPT !.state = Idle]

trans_watering(m, current_time) ==
    LET daily_plan == IF m.current_mode = "Auto" THEN m.auto_plan ELSE m.wizard_plan IN
    IF daily_plan = <<>> THEN m
    ELSE LET c == get_cycle(daily_plan[1], current_time) IN
         IF ~c.some THEN m
         ELSE LET n == next_sector(c) IN
              IF n.res.some
                 THEN activate_sector([m EXCEPT !.cycle = n.cycle], n.res.ws)
                 ELSE m

update(m, current_time) ==
    LET m1 == [m EXCEPT !.timeframe = roll_window(@, current_time)] IN
    CASE m1.state.tag = "Watering" ->
            LET sec == m1.state.ws IN
            IF current_time >= sec.start + sec.duration
               THEN LET m2 == deactivate_sector(m1, current_time, sec) IN
                    IF m2.cycle.some
                       THEN LET n == next_sector(m2.cycle)
                                m3 == [m2 EXCEPT !.cycle = n.cycle]
                            IN IF n.res.some THEN activate_sector(m3, n.res.ws)
                                             ELSE stop(m3)
                       ELSE stop(m2)
               ELSE update_active_sector(m1, sec, current_time)
      [] m1.state.tag = "Idle" /\ is_auto_or_wizard(m1) -> trans_watering(m1, current_time)
      [] OTHER -> m1

\* trans_pause that leaves the valve of the paused sector on
trans_pause_valve_on(m, signal, current_time) ==
    IF m.current_mode # "Wizard" THEN m
    ELSE CASE m.state.tag = "Watering" ->
                 LET m1 == [m EXCEPT !.sectors[m.state.ws.id].last_water = current_time] IN
                 [m1 EXCEPT !.state = Paused(m1.state, <<signal>>)]
           [] m.state.tag = "Paused" ->
                 IF \A i \in 1..Len(m.state.signals) : m.state.signals[i] # signal
                    THEN [m EXCEPT !.state.signals = Append(@, signal)]
                    ELSE m
           [] OTHER -> m

\* trans_pause without the test of the mode: it pauses in Auto and Manual too
trans_pause_any_mode(m, signal, current_time) ==
    CASE m.state.tag = "Watering" ->
            LET m1 == deactivate_sector(m, current_time, m.state.ws) IN
            [m1 EXCEPT !.state = Paused(m1.state, <<signal>>)]
      [] m.state.tag = "Paused" ->
            IF \A i \in 1..Len(m.state.signals) : m.state.signals[i] # signal
               THEN [m EXCEPT !.state.signals = Append(@, signal)]
               ELSE m
      [] OTHER -> m

trans_pause(m, signal, current_time) ==
    IF m.current_mode # "Wizard" THEN m
    ELSE CASE m.state.tag = "Watering" ->
                 LET m1 == deactivate_sector(m, current_time, m.state.ws) IN
                 [m1 EXCEPT !.state = Paused(m1.state, <<signal>>)]
           [] m.state.tag = "Paused" ->
                 IF \A i \in 1..Len(m.state.signals) : m.state.signals[i] # signal
                    THEN [m EXCEPT !.state.signals = Append(@, signal)]
                    ELSE m
           [] OTHER -> m

\* trans_resume that restores the prior state without switching its valve on again
trans_resume_no_valve(m, env_signal, current_time) ==
    IF env_signal \notin {"LowWind", "RainStop"} THEN m
    ELSE IF m.state.tag = "Paused"
         THEN IF Len(m.state.signals) = 1
                 THEN LET m1 == [m EXCEPT !.state = m.state.state] IN
                      IF is_within(m1.timeframe, current_time) THEN m1 ELSE stop(m1)
                 ELSE [m EXCEPT !.state.signals =
                          SelectSeq(@, LAMBDA s : s # env_signal)]
         ELSE m

trans_resume(m, env_signal, current_time) ==
    IF env_signal \notin {"LowWind", "RainStop"} THEN m
    ELSE IF m.state.tag = "Paused"
         THEN IF Len(m.state.signals) = 1
                 THEN LET m1 == [m EXCEPT !.state = m.state.state] IN
                      IF is_within(m1.timeframe, current_time)
                         THEN activate_sector(m1, m1.cycle.daily_plan[m1.cycle.curr_sector + 1])
                         ELSE stop(m1)
                 ELSE [m EXCEPT !.state.signals =
                          SelectSeq(@, LAMBDA s : s # env_signal)]
         ELSE m

\* trans_change_mode that also aborts what is running
trans_change_mode_aborts(m, new_mode) ==
    IF new_mode # m.current_mode
       THEN [m EXCEPT !.current_mode = new_mode, !.state = Idle, !.cycle = NoCycle]
       ELSE m

trans_change_mode(m, new_mode) ==
    IF new_mode # m.current_mode THEN [m EXCEPT !.current_mode = new_mode] ELSE m

handle_signal(m, signal, current_time) ==
    CASE m.state.tag = "Idle" /\ signal.kind = "ChgMode" -> trans_change_mode(m, signal.mode)
      [] m.state.tag = "Watering" /\ signal.kind = "ChgMode" -> trans_change_mode(m, signal.mode)
      [] m.state.tag = "Watering" /\ signal.kind = "Weather" ->
             trans_pause(m, signal.weather, current_time)
      [] m.state.tag = "Watering" /\ signal.kind = "StopMachine" -> trans_change_mode(m, "Manual")
      [] m.state.tag = "Paused" /\ signal.kind = "ChgMode" -> trans_change_mode(m, signal.mode)
      [] m.state.tag = "Paused" /\ signal.kind = "Weather" ->
             trans_resume(m, signal.weather, current_time)
      [] m.state.tag = "Paused" /\ signal.kind = "StopMachine" -> trans_change_mode(m, "Manual")
      [] OTHER -> m

\* do_daily_adjustments that takes Sunday for the first day of the week
do_daily_adjustments_sunday(m, order, current_time, daily_et, daily_rain) ==
    LET new_week == get_week_day_from_ts(current_time) = 6
        adjusted == [i \in Sectors |->
                        [m.sectors[i] EXCEPT !.progress =
                            adjust_daily_sector_progress(@, SectorCfg(i).percolation,
                                                         daily_et, daily_rain, new_week)]]
        secs_clone == [k \in 1..Len(order) |->
                          [id |-> order[k],
                           weekly_target |-> SectorCfg(order[k]).weekly_target,
                           max_duration |-> SectorCfg(order[k]).max_duration,
                           progress |-> adjusted[order[k]].progress]]
    IN [m EXCEPT !.sectors = adjusted,
                 !.wizard_plan = calc_daily_plan(secs_clone, current_time, m.timeframe),
                 !.auto_plan = load_auto_schedule(m.auto_schedule, current_time)]

\* order is the iteration order of self.sectors.values()
do_daily_adjustments(m, order, current_time, daily_et, daily_rain) ==
    LET new_week == get_week_day_from_ts(current_time) = 0
        adjusted == [i \in Sectors |->
                        [m.sectors[i] EXCEPT !.progress =
                            adjust_daily_sector_progress(@, SectorCfg(i).percolation,
                                                         daily_et, daily_rain, new_week)]]
        secs_clone == [k \in 1..Len(order) |->
                          [id |-> order[k],
                           weekly_target |-> SectorCfg(order[k]).weekly_target,
                           max_duration |-> SectorCfg(order[k]).max_duration,
                           progress |-> adjusted[order[k]].progress]]
    IN [m EXCEPT !.sectors = adjusted,
                 !.wizard_plan = calc_daily_plan(secs_clone, current_time, m.timeframe),
                 !.auto_plan = load_auto_schedule(m.auto_schedule, current_time)]

\* ------------------------------------------------------------ inputs
\* Auto schedules the database may hold: entries of (weekday, start_times)
Schedules ==
    { <<[weekday |-> 3, start_times |-> <<WS(2, 4, 1), WS(1, 1, 2)>>]>>,
      <<[weekday |-> 3, start_times |-> <<WS(1, 1, 1)>>],
        [weekday |-> 3, start_times |-> <<WS(2, 3, 2), WS(1, 5, 1)>>]>>,
      <<[weekday |-> 3, start_times |-> <<>>],
        [weekday |-> 3, start_times |-> <<WS(1, 2, 1)>>]>>,
      <<[weekday |-> 4, start_times |-> <<WS(1, 0, 2)>>]>> }

\* the times at which the machine is constructed
StartTimes == {0, 2}

\* ------------------------------------------------------------ behaviour
\* the orders in which a HashMap may iterate over the sectors
SectorOrders ==
    {o \in [1..NumSectors -> Sectors] : \A i, j \in 1..NumSectors : i # j => o[i] # o[j]}

\* the daily evapotranspiration and rain the database may return, in progress units:
\* a dry day, or a day whose rain alone covers a weekly target
DailyEts == {0, 1}
DailyRains == {0, WeeklyTarget}

NoDay == -1

\* StateMachine::new
Init ==
    /\ now \in StartTimes
    /\ phase = "boundary"
    /\ op = [name |-> "new"]
    /\ state = Idle
    /\ current_mode \in Modes
    /\ cycle = NoCycle
    /\ auto_schedule \in Schedules
    /\ auto_plan = load_auto_schedule(auto_schedule, now)
    /\ wizard_plan = <<>>
    /\ timeframe = WaterWin_new(now)
    /\ sectors = [i \in Sectors |-> [progress |-> 0, last_water |-> 0]]
    /\ valves = {}
    /\ events = <<>>
    /\ completed = <<>>
    /\ panicked = FALSE
    /\ sector_order \in SectorOrders
    /\ signalled = FALSE
    /\ last_day = NoDay
    /\ bus = <<>>
    /\ sent = <<>>
    /\ dispatched = <<>>
    /\ ctrl_ok = TRUE
    /\ hw = {}
    /\ LockInit

\* the current_time of the tick in progress
TickTime == IF phase = "boundary" THEN now + 1 ELSE now

\* a marker test that asks for the adjustment on every tick
DayChanged_every_tick == TRUE

\* the day of the tick differs from the marker of the last daily adjustment
DayChanged == sod(TickTime) # last_day

\* the dispatcher runs the daily adjustment on the first tick of a day
DailyAdjust(daily_et, daily_rain) ==
    /\ ~panicked
    /\ TickTime <= MaxTime
    /\ DayChanged
    /\ now' = TickTime
    /\ phase' = "tick"
    /\ last_day' = sod(TickTime)
    /\ op' = [name |-> "do_daily_adjustments"]
    /\ Store(do_daily_adjustments(Self, sector_order, TickTime, daily_et, daily_rain))
    /\ UNCHANGED <<completed, sector_order, signalled, bus, sent, dispatched>>
    /\ UNCHANGED lockvars

\* the dispatcher hands the pending signal of this tick, if any, to handle_signal
HandleSignal(signal) ==
    /\ ~panicked
    /\ ~signalled
    /\ TickTime <= MaxTime
    /\ now' = TickTime
    /\ phase' = "tick"
    /\ signalled' = TRUE
    /\ op' = [name |-> "handle_signal", signal |-> signal]
    /\ Store(handle_signal(Self, signal, TickTime))
    /\ UNCHANGED <<completed, sector_order, last_day, bus, sent, dispatched>>
    /\ UNCHANGED lockvars

\* the dispatcher calling update(now) without waiting for the daily adjustment
Update_before_adjust ==
    /\ ~panicked
    /\ TickTime <= MaxTime
    /\ now' = TickTime
    /\ phase' = "boundary"
    /\ signalled' = FALSE
    /\ op' = [name |-> "update"]
    /\ Store(update(Self, TickTime))
    /\ completed' = IF state.tag = "Watering"
                       /\ TickTime >= state.ws.start + state.ws.duration
                       THEN Append(completed, state.ws)
                       ELSE completed
    /\ UNCHANGED <<sector_order, last_day, bus, sent, dispatched>>
    /\ UNCHANGED lockvars

\* the dispatcher calls update(now), once per tick, after the daily adjustment
Update ==
    /\ ~panicked
    /\ TickTime <= MaxTime
    /\ ~DayChanged
    /\ now' = TickTime
    /\ phase' = "boundary"
    /\ signalled' = FALSE
    /\ op' = [name |-> "update"]
    /\ Store(update(Self, TickTime))
    /\ completed' = IF state.tag = "Watering"
                       /\ TickTime >= state.ws.start + state.ws.duration
                       THEN Append(completed, state.ws)
                       ELSE completed
    /\ UNCHANGED <<sector_order, last_day, bus, sent, dispatched>>
    /\ UNCHANGED lockvars

Next ==
    \/ \E signal \in CtrlSignals : HandleSignal(signal)
    \/ \E daily_et \in DailyEts, daily_rain \in DailyRains : DailyAdjust(daily_et, daily_rain)
    \/ Update

Spec == Init /\ [][Next]_vars

\* ------------------------------------- the machine with its adapters
\* The broadcast channel between the producers and the dispatcher, and a sensor
\* controller whose calls may fail.  Spec above abstracts both: there the signal of
\* a tick is any signal, and the controller always answers Ok.
BusCapacity == 2   \* MAX_MSGS (100), scaled: the signals the channel holds
MaxSends    == 5   \* the signals the producers send in a run

\* the signals the producers of this scenario send
IOSignals ==
    {[kind |-> "Weather", weather |-> "RainStart"],
     [kind |-> "Weather", weather |-> "RainStop"],
     [kind |-> "ChgMode", mode |-> "Wizard"]}

\* an Auto schedule with a sector long enough to receive several signals
IOSchedules == { <<[weekday |-> 3, start_times |-> <<WS(1, 1, 7)>>]>> }

\* Sender::send: the signal is queued behind the pending ones
send(b, signal) == Append(b, signal)

\* Receiver::try_recv that hands out the newest pending signal instead of the oldest
try_recv_newest(b) ==
    IF b = <<>> THEN [bus |-> b, res |-> [some |-> FALSE]]
    ELSE [bus |-> SubSeq(b, 1, Len(b) - 1), res |-> [some |-> TRUE, signal |-> b[Len(b)]]]

\* Receiver::try_recv: the oldest pending signal, or nothing, without blocking
try_recv(b) ==
    IF b = <<>> THEN [bus |-> b, res |-> [some |-> FALSE]]
    ELSE [bus |-> Tail(b), res |-> [some |-> TRUE, signal |-> Head(b)]]

IOInit ==
    /\ now = 0
    /\ phase = "boundary"
    /\ op = [name |-> "new"]
    /\ state = Idle
    /\ current_mode = "Auto"
    /\ cycle = NoCycle
    /\ auto_schedule \in IOSchedules
    /\ auto_plan = load_auto_schedule(auto_schedule, now)
    /\ wizard_plan = <<>>
    /\ timeframe = WaterWin_new(now)
    /\ sectors = [i \in Sectors |-> [progress |-> 0, last_water |-> 0]]
    /\ valves = {}
    /\ events = <<>>
    /\ completed = <<>>
    /\ panicked = FALSE
    /\ sector_order = [i \in 1..NumSectors |-> i]
    /\ signalled = FALSE
    /\ last_day = NoDay
    /\ bus = <<>>
    /\ sent = <<>>
    /\ dispatched = <<>>
    /\ ctrl_ok \in BOOLEAN
    /\ hw = {}
    /\ LockInit

\* a producer (an HTTP handler, the weather ingest) sends a signal
Send(signal) ==
    /\ ~panicked
    /\ TickTime <= MaxTime
    /\ Len(sent) < MaxSends
    /\ Len(bus) < BusCapacity
    /\ bus' = send(bus, signal)
    /\ sent' = Append(sent, signal)
    /\ UNCHANGED <<now, phase, op, state, current_mode, cycle, auto_plan, wizard_plan,
                   timeframe, sectors, auto_schedule, valves, events, completed,
                   panicked, sector_order, signalled, last_day, dispatched, ctrl_ok, hw>>
    /\ UNCHANGED lockvars

\* handle_signals: the dispatcher takes one pending signal and hands it to handle_signal
Recv ==
    /\ ~panicked
    /\ ~signalled
    /\ TickTime <= MaxTime
    /\ try_recv(bus).res.some
    /\ bus' = try_recv(bus).bus
    /\ dispatched' = Append(dispatched, try_recv(bus).res.signal)
    /\ now' = TickTime
    /\ phase' = "tick"
    /\ signalled' = TRUE
    /\ op' = [name |-> "handle_signal", signal |-> try_recv(bus).res.signal]
    /\ Store(handle_signal(Self, try_recv(bus).res.signal, TickTime))
    /\ UNCHANGED <<completed, sector_order, last_day, sent>>
    /\ UNCHANGED lockvars

\* update(now) of a tick whose pending signal, if any, was taken; the controller
\* answers ok to the calls of this tick and of the next signal
IOUpdate(ok) ==
    /\ ~panicked
    /\ TickTime <= MaxTime
    /\ ~DayChanged
    /\ signalled \/ ~try_recv(bus).res.some
    /\ now' = TickTime
    /\ phase' = "boundary"
    /\ signalled' = FALSE
    /\ op' = [name |-> "update"]
    /\ Store(update([Self EXCEPT !.ctrl_ok = ok], TickTime))
    /\ completed' = IF state.tag = "Watering"
                       /\ TickTime >= state.ws.start + state.ws.duration
                       THEN Append(completed, state.ws)
                       ELSE completed
    /\ UNCHANGED <<sector_order, last_day, bus, sent, dispatched>>
    /\ UNCHANGED lockvars

IONext ==
    \/ \E signal \in IOSignals : Send(signal)
    \/ Recv
    \/ DailyAdjust(0, 0)
    \/ \E ok \in BOOLEAN : IOUpdate(ok)

SpecIO == IOInit /\ [][IONext]_vars

\* --------------------------------------- the window and the planner alone
\* WaterWin::roll_window and calc_daily_plan applied to inputs drawn from bounded
\* sets: every weekday, every progress up to the weekly target, every iteration order.
WeekDays == 7          \* days of a week

\* the sectors as the planner receives them, self.sectors.values().cloned().collect()
sector_infos(secs, order) ==
    [k \in 1..Len(order) |->
        [id |-> order[k],
         weekly_target |-> SectorCfg(order[k]).weekly_target,
         max_duration |-> SectorCfg(order[k]).max_duration,
         progress |-> secs[order[k]].progress]]

\* the times roll_window is called with: inside the window, at its end, right after
\* it, a day after its end and one second more
RollTimes(w) ==
    {w.day_start_time, w.day_end_time, w.day_end_time + 1,
     w.day_end_time + DaySecs, w.day_end_time + DaySecs + 1}

AlgInit ==
    /\ now \in {d * DaySecs : d \in 0..(WeekDays - 1)}
    /\ phase = "boundary"
    /\ op = [name |-> "new"]
    /\ state = Idle
    /\ current_mode = "Wizard"
    /\ cycle = NoCycle
    /\ auto_schedule = <<>>
    /\ auto_plan = <<>>
    /\ wizard_plan = <<>>
    /\ timeframe = WaterWin_new(now)
    /\ sectors \in [Sectors -> {[progress |-> p, last_water |-> 0] : p \in 0..(WeeklyTarget + NumSectors - 1)}]
    /\ \A i \in Sectors : sectors[i].progress <= SectorCfg(i).weekly_target
    /\ valves = {}
    /\ events = <<>>
    /\ completed = <<>>
    /\ panicked = FALSE
    /\ sector_order \in SectorOrders
    /\ signalled = FALSE
    /\ last_day = NoDay
    /\ bus = <<>>
    /\ sent = <<>>
    /\ dispatched = <<>>
    /\ ctrl_ok = TRUE
    /\ hw = {}
    /\ LockInit

\* timeframe.roll_window(current_time), the first statement of update
RollWindow(current_time) ==
    /\ op.name = "new"
    /\ timeframe' = roll_window(timeframe, current_time)
    /\ now' = current_time
    /\ op' = [name |-> "roll_window"]
    /\ UNCHANGED <<phase, state, current_mode, cycle, auto_plan, wizard_plan, sectors,
                   auto_schedule, valves, events, completed, panicked, sector_order,
                   signalled, last_day, bus, sent, dispatched, ctrl_ok, hw>>
    /\ UNCHANGED lockvars

\* calc_daily_plan(sectors, now, timeframe), as do_daily_adjustments calls it
PlanDay ==
    /\ op.name = "new"
    /\ wizard_plan' = calc_daily_plan(sector_infos(sectors, sector_order), now, timeframe)
    /\ op' = [name |-> "calc_daily_plan"]
    /\ UNCHANGED <<now, phase, state, current_mode, cycle, auto_plan, timeframe, sectors,
                   auto_schedule, valves, events, completed, panicked, sector_order,
                   signalled, last_day, bus, sent, dispatched, ctrl_ok, hw>>
    /\ UNCHANGED lockvars

AlgNext ==
    \/ \E current_time \in RollTimes(timeframe) : RollWindow(current_time)
    \/ PlanDay

SpecAlg == AlgInit /\ [][AlgNext]_vars

\* ------------------------------------------- the dispatcher over a week
\* The dispatcher of Spec with the machine left in Manual mode, so that more than a
\* week of ticks fits: no sector runs, progress moves with the daily adjustments only.
MaxDays == 12          \* days the run lasts

WeekInit ==
    /\ now = 0
    /\ phase = "boundary"
    /\ op = [name |-> "new"]
    /\ state = Idle
    /\ current_mode = "Manual"
    /\ cycle = NoCycle
    /\ auto_schedule = <<>>
    /\ auto_plan = <<>>
    /\ wizard_plan = <<>>
    /\ timeframe = WaterWin_new(now)
    /\ sectors = [i \in Sectors |-> [progress |-> 0, last_water |-> 0]]
    /\ valves = {}
    /\ events = <<>>
    /\ completed = <<>>
    /\ panicked = FALSE
    /\ sector_order = [i \in 1..NumSectors |-> i]
    /\ signalled = FALSE
    /\ last_day = NoDay
    /\ bus = <<>>
    /\ sent = <<>>
    /\ dispatched = <<>>
    /\ ctrl_ok = TRUE
    /\ hw = {}
    /\ LockInit

\* the daily adjustment on the first tick of a day, with what the database returned
WeekAdjust(daily_et, daily_rain) ==
    /\ TickTime < MaxDays * DaySecs
    /\ DayChanged
    /\ now' = TickTime
    /\ phase' = "tick"
    /\ last_day' = sod(TickTime)
    /\ op' = [name |-> "do_daily_adjustments", daily_et |-> daily_et, daily_rain |-> daily_rain]
    /\ Store(do_daily_adjustments(Self, sector_order, TickTime, daily_et, daily_rain))
    /\ UNCHANGED <<completed, sector_order, signalled, bus, sent, dispatched>>
    /\ UNCHANGED lockvars

\* update(now), once per tick, after the daily adjustment
WeekUpdate ==
    /\ TickTime < MaxDays * DaySecs
    /\ ~DayChanged
    /\ now' = TickTime
    /\ phase' = "boundary"
    /\ op' = [name |-> "update"]
    /\ Store(update(Self, TickTime))
    /\ UNCHANGED <<completed, sector_order, signalled, last_day, bus, sent, dispatched>>
    /\ UNCHANGED lockvars

WeekNext ==
    \/ \E daily_et \in DailyEts, daily_rain \in DailyRains : WeekAdjust(daily_et, daily_rain)
    \/ WeekUpdate

SpecWeek == WeekInit /\ [][WeekNext]_vars

\* ------------------------------------------- a cycle run without signals
\* The dispatcher of Spec in Auto mode on dry days with no signal on the bus: the
\* Thursday plan starts on the tick of its start and every sector of it starts on the
\* tick on which the one before it ends.
RunSchedules ==
    { <<[weekday |-> 3, start_times |-> <<WS(i, s, d)>>]>> :
          i \in Sectors, s \in 1..2, d \in 1..3 }
    \cup
    { <<[weekday |-> 3, start_times |-> <<WS(1, 1, d), WS(2, 1 + d, e)>>]>> :
          d \in 1..2, e \in 1..2 }

RunInit ==
    /\ now = 0
    /\ phase = "boundary"
    /\ op = [name |-> "new"]
    /\ state = Idle
    /\ current_mode = "Auto"
    /\ cycle = NoCycle
    /\ auto_schedule \in RunSchedules
    /\ auto_plan = load_auto_schedule(auto_schedule, now)
    /\ wizard_plan = <<>>
    /\ timeframe = WaterWin_new(now)
    /\ sectors = [i \in Sectors |-> [progress |-> 0, last_water |-> 0]]
    /\ valves = {}
    /\ events = <<>>
    /\ completed = <<>>
    /\ panicked = FALSE
    /\ sector_order = [i \in 1..NumSectors |-> i]
    /\ signalled = FALSE
    /\ last_day = NoDay
    /\ bus = <<>>
    /\ sent = <<>>
    /\ dispatched = <<>>
    /\ ctrl_ok = TRUE
    /\ hw = {}
    /\ LockInit

RunNext ==
    \/ \E daily_et \in DailyEts : DailyAdjust(daily_et, 0)
    \/ Update

SpecRun == RunInit /\ [][RunNext]_vars

\* ------------------------------------------- the lock-based WateringSystem
\* The WateringSystem that keeps the machine and the active mode behind RwLocks.  Two
\* tasks run on the multi-threaded runtime: "http", the get_state handler, and "disp",
\* the dispatcher, which handles a signal and then calls update.  state, cycle and
\* current_mode hold the fields state and cycle of the WateringStateMachine and the
\* variant of active_mode.  A read lock is granted when no writer holds the lock, a
\* write lock when nobody holds it; the queue of tokio's RwLock only adds waiting.
Activating(sector) == [tag |-> "Activating", sector |-> sector]
WateringFor(sector, duration) == [tag |-> "Watering", sector |-> sector, duration |-> duration]
Deactivating(sector) == [tag |-> "Deactivating", sector |-> sector]

NoSnapshot == [some |-> FALSE]
NoSignal == [kind |-> "none"]

\* the cycles a caller starts: Cycle::default() of the modes, and cycles with instructions
StartedCycles ==
    { [some |-> TRUE, id |-> 0, instructions |-> <<>>],
      [some |-> TRUE, id |-> 1, instructions |-> << <<1, MaxDuration>> >>],
      [some |-> TRUE, id |-> 2, instructions |-> << <<1, MaxDuration>>, <<2, MaxDuration>> >>] }

EnvironmentalSignals == {[kind |-> "Environmental", signal |-> e] : e \in WeatherSignals}

SwitchSignals ==
    {[kind |-> "SwitchToAuto"], [kind |-> "SwitchToManual"], [kind |-> "SwitchToWizard"]}

LockSignals ==
    EnvironmentalSignals \cup SwitchSignals \cup {[kind |-> "StopMachine"], [kind |-> "Weather"]}

CanRead(l) == locks[l].w = NoTask
CanWrite(l) == locks[l].w = NoTask /\ locks[l].r = {}

\* the machine and the snapshot, as ModeWizard::handle_signal sees them
WizardView ==
    [paused_state |-> paused_state, state |-> state, cycle |-> cycle,
     current_instruction |-> current_instruction]

\* handle_signal whose stop branch restores the snapshot and keeps it
ModeWizard_handle_signal_keeps_snapshot(w, env_signal) ==
    IF env_signal \in {"RainStart", "HighWind"}
       THEN IF ~w.paused_state.some /\ w.cycle.some
               THEN [w EXCEPT !.paused_state = [some |-> TRUE, state |-> w.state,
                                                cycle |-> w.cycle,
                                                instruction |-> w.current_instruction],
                              !.cycle = NoCycle,
                              !.state = Idle]
               ELSE w
       ELSE IF w.paused_state.some
               THEN [w EXCEPT !.state = w.paused_state.state,
                              !.cycle = w.paused_state.cycle,
                              !.current_instruction = w.paused_state.instruction]
               ELSE w

\* ModeWizard::handle_signal
ModeWizard_handle_signal(w, env_signal) ==
    IF env_signal \in {"RainStart", "HighWind"}
       THEN IF ~w.paused_state.some /\ w.cycle.some
               THEN [w EXCEPT !.paused_state = [some |-> TRUE, state |-> w.state,
                                                cycle |-> w.cycle,
                                                instruction |-> w.current_instruction],
                              !.cycle = NoCycle,
                              !.state = Idle]
               ELSE w
       ELSE IF w.paused_state.some
               THEN [w EXCEPT !.state = w.paused_state.state,
                              !.cycle = w.paused_state.cycle,
                              !.current_instruction = w.paused_state.instruction,
                              !.paused_state = NoSnapshot]
               ELSE w

\* WateringSystem::handle_signal once the locks it asks for are granted
WateringSystem_handle_signal(w, mode, signal) ==
    CASE signal.kind = "SwitchToAuto" -> [w |-> [w EXCEPT !.paused_state = NoSnapshot], mode |-> "Auto"]
      [] signal.kind = "SwitchToManual" -> [w |-> [w EXCEPT !.paused_state = NoSnapshot], mode |-> "Manual"]
      [] signal.kind = "SwitchToWizard" -> [w |-> [w EXCEPT !.paused_state = NoSnapshot], mode |-> "Wizard"]
      [] signal.kind = "Environmental" ->
            [w |-> IF mode = "Wizard" THEN ModeWizard_handle_signal(w, signal.signal) ELSE w,
             mode |-> mode]
      [] signal.kind = "StopMachine" ->
            [w |-> [w EXCEPT !.state = Idle, !.cycle = NoCycle], mode |-> mode]
      [] OTHER -> [w |-> w, mode |-> mode]

\* the variables of the tick-driven machine, which the lock-based system does not have
tickvars == <<now, phase, auto_plan, wizard_plan, timeframe, sectors, auto_schedule, valves,
              events, completed, panicked, sector_order, signalled, last_day, bus, sent,
              dispatched, ctrl_ok, hw>>

LockSysInit ==
    /\ now = 0
    /\ phase = "boundary"
    /\ op = [name |-> "new"]
    /\ state = Idle
    /\ current_mode = "Auto"
    /\ cycle = NoCycle
    /\ auto_schedule = <<>>
    /\ auto_plan = <<>>
    /\ wizard_plan = <<>>
    /\ timeframe = WaterWin_new(now)
    /\ sectors = [i \in Sectors |-> [progress |-> 0, last_water |-> 0]]
    /\ valves = {}
    /\ events = <<>>
    /\ completed = <<>>
    /\ panicked = FALSE
    /\ sector_order = [i \in 1..NumSectors |-> i]
    /\ signalled = FALSE
    /\ last_day = NoDay
    /\ bus = <<>>
    /\ sent = <<>>
    /\ dispatched = <<>>
    /\ ctrl_ok = TRUE
    /\ hw = {}
    /\ LockInit

\* get_state: the read lock of active_mode, then the read lock of state_machine, both
\* held until the response is built
GetState ==
    /\ IF pc.http = "idle"
          THEN /\ CanRead("active_mode")
               /\ locks' = [locks EXCEPT !.active_mode.r = @ \cup {"http"}]
               /\ pc' = [pc EXCEPT !.http = "state_machine.read"]
          ELSE IF pc.http = "state_machine.read"
          THEN /\ CanRead("state_machine")
               /\ locks' = [locks EXCEPT !.state_machine.r = @ \cup {"http"}]
               /\ pc' = [pc EXCEPT !.http = "respond"]
          ELSE /\ pc.http = "respond"
               /\ locks' = [locks EXCEPT !.state_machine.r = @ \ {"http"},
                                         !.active_mode.r = @ \ {"http"}]
               /\ pc' = [pc EXCEPT !.http = "idle"]
    /\ op' = [name |-> "get_state", at |-> pc.http]
    /\ UNCHANGED <<state, current_mode, cycle, paused_state, current_instruction>>
    /\ UNCHANGED tickvars

\* handle_signals: try_recv, and with a signal the write lock of state_machine
HandleSignals(signal) ==
    /\ pc.disp = "signals"
    /\ IF signal = NoSignal
          THEN /\ pc' = [pc EXCEPT !.disp = "execute"]
               /\ UNCHANGED locks
          ELSE /\ CanWrite("state_machine")
               /\ locks' = [locks EXCEPT !.state_machine.w = "disp"]
               /\ pc' = [pc EXCEPT !.disp = "handle_signal", !.signal = signal]
    /\ op' = [name |-> "handle_signals", signal |-> signal]
    /\ UNCHANGED <<state, current_mode, cycle, paused_state, current_instruction>>
    /\ UNCHANGED tickvars

\* WateringSystem::handle_signal under the write lock of state_machine: the switches
\* and the Environmental signals take the write lock of active_mode
LockHandleSignal ==
    /\ pc.disp = "handle_signal"
    /\ pc.signal \in (EnvironmentalSignals \cup SwitchSignals) => CanWrite("active_mode")
    /\ LET res == WateringSystem_handle_signal(WizardView, current_mode, pc.signal) IN
       /\ paused_state' = res.w.paused_state
       /\ state' = res.w.state
       /\ cycle' = res.w.cycle
       /\ current_instruction' = res.w.current_instruction
       /\ current_mode' = res.mode
    /\ locks' = [locks EXCEPT !.state_machine.w = NoTask]
    /\ pc' = [pc EXCEPT !.disp = "execute", !.signal = NoSignal]
    /\ op' = [name |-> "handle_signal", signal |-> pc.signal, mode |-> current_mode,
              before |-> WizardView]
    /\ UNCHANGED tickvars

\* a mode's execute starts its cycle when the machine has none: start_cycle under the
\* write lock of state_machine
StartCycle(c) ==
    /\ pc.disp = "execute"
    /\ ~cycle.some
    /\ CanWrite("state_machine")
    /\ cycle' = c
    /\ current_instruction' = 0
    /\ state' = Idle
    /\ op' = [name |-> "start_cycle"]
    /\ UNCHANGED <<current_mode, paused_state, locks, pc>>
    /\ UNCHANGED tickvars

\* WateringSystem::update, its first statement: the read lock of state_machine
UpdateRead ==
    /\ pc.disp = "execute"
    /\ CanRead("state_machine")
    /\ locks' = [locks EXCEPT !.state_machine.r = @ \cup {"disp"}]
    /\ pc' = [pc EXCEPT !.disp = "update"]
    /\ op' = [name |-> "update.read"]
    /\ UNCHANGED <<state, current_mode, cycle, paused_state, current_instruction>>
    /\ UNCHANGED tickvars

\* update with the read guard sm: no cycle, a completed cycle (the guard stays alive
\* while the write lock is asked for), or an instruction to run (the guard is dropped)
UpdateDecide ==
    /\ pc.disp = "update"
    /\ IF ~cycle.some
          THEN /\ locks' = [locks EXCEPT !.state_machine.r = @ \ {"disp"}]
               /\ pc' = [pc EXCEPT !.disp = "signals"]
          ELSE IF current_instruction >= Len(cycle.instructions)
          THEN /\ pc' = [pc EXCEPT !.disp = "update.write"]
               /\ UNCHANGED locks
          ELSE /\ locks' = [locks EXCEPT !.state_machine.r = @ \ {"disp"}]
               /\ pc' = [pc EXCEPT !.disp = IF state.tag = "Watering" THEN "signals"
                                            ELSE "update.handle"]
    /\ op' = [name |-> "update.decide"]
    /\ UNCHANGED <<state, current_mode, cycle, paused_state, current_instruction>>
    /\ UNCHANGED tickvars

\* update taking the write lock of state_machine: to end the completed cycle, or in
\* handle_idle, handle_activating and handle_deactivating
UpdateWrite ==
    /\ pc.disp \in {"update.write", "update.handle"}
    /\ CanWrite("state_machine")
    /\ IF pc.disp = "update.write"
          THEN /\ cycle' = NoCycle
               /\ state' = Idle
               /\ locks' = [locks EXCEPT !.state_machine.r = @ \ {"disp"}]
               /\ UNCHANGED current_instruction
          ELSE LET instruction == cycle.instructions[current_instruction + 1]
                   sector_id == instruction[1]
                   duration == instruction[2]
               IN /\ state' = CASE state.tag = "Idle" -> Activating(sector_id)
                                [] state.tag = "Activating" -> WateringFor(sector_id, duration)
                                [] state.tag = "Deactivating" -> Idle
                                [] OTHER -> state
                  /\ current_instruction' = IF state.tag = "Deactivating"
                                               THEN current_instruction + 1
                                               ELSE current_instruction
                  /\ UNCHANGED <<cycle, locks>>
    /\ pc' = [pc EXCEPT !.disp = "signals"]
    /\ op' = [name |-> "update.write"]
    /\ UNCHANGED <<current_mode, paused_state>>
    /\ UNCHANGED tickvars

LockNext ==
    \/ GetState
    \/ \E signal \in LockSignals \cup {NoSignal} : HandleSignals(signal)
    \/ LockHandleSignal
    \/ \E c \in StartedCycles : StartCycle(c)
    \/ UpdateRead
    \/ UpdateDecide
    \/ UpdateWrite

SpecLock == LockSysInit /\ [][LockNext]_vars

\* ------------------------------------------------------------ properties
\* the step is update(now')
UpdateStep == op'.name = "update"

\* the step is handle_signal(Weather(w), now') for some w of W
WeatherStep(W) ==
    /\ op'.name = "handle_signal"
    /\ op'.signal.kind = "Weather"
    /\ op'.signal.weather \in W

StartSignals == {"RainStart", "HighWind"}
StopSignals == {"RainStop", "LowWind"}

\* the plan list trans_watering and stop work on
ActivePlans == IF current_mode = "Auto" THEN auto_plan ELSE wizard_plan

\* C1: while the machine runs, the energized valves are exactly {ws.id} in state
\* Watering(ws) and none in Idle or Paused; so at most one valve is energized.
C1_OneValveIffWatering ==
    ~panicked =>
        /\ state.tag = "Watering" => valves = {state.ws.id}
        /\ state.tag \in {"Idle", "Paused"} => valves = {}
        /\ Cardinality(valves) <= 1

\* C1 witness: the second sector of a cycle runs, after the first was switched off
C1_Witness ==
    /\ state.tag = "Watering"
    /\ cycle.some /\ cycle.curr_sector = 1
    /\ Len(completed) >= 1
    /\ valves = {state.ws.id}

\* C2 (as claimed): after update(now), Watering(ws) implies ws.start <= now < ws.start + ws.duration
C2_Claim ==
    (phase = "boundary" /\ op.name = "update" /\ ~panicked /\ state.tag = "Watering") =>
        /\ state.ws.start <= now
        /\ now < state.ws.start + state.ws.duration

\* C3: update in Idle with mode Auto or Wizard starts Watering(first), valve first.id,
\* exactly when the first plan of the active mode is non-empty and first.start <= now
C3_IdleToWatering ==
    [][(UpdateStep /\ state.tag = "Idle" /\ current_mode \in {"Auto", "Wizard"}) =>
          LET due == /\ ActivePlans # <<>>
                     /\ ActivePlans[1] # <<>>
                     /\ ActivePlans[1][1].start <= now'
          IN /\ due => /\ state' = Watering(ActivePlans[1][1])
                       /\ valves' = {ActivePlans[1][1].id}
             /\ ~due => /\ state' = Idle
                        /\ valves' = valves
                        /\ cycle' = cycle]_vars

\* C3 witness: the tick at first.start has just started the first sector
C3_Witness ==
    /\ op.name = "update"
    /\ state.tag = "Watering"
    /\ cycle.some /\ cycle.curr_sector = 0
    /\ now = state.ws.start
    /\ valves = {state.ws.id}

\* C4 (as claimed): the update at now >= ws.start + ws.duration switches ws off, stamps
\* last_water, and goes to Watering(next) or, at the end of the cycle, drops the cycle,
\* removes the first plan of the active mode and goes to Idle
C4_Claim ==
    [][(UpdateStep /\ state.tag = "Watering"
        /\ now' >= state.ws.start + state.ws.duration) =>
          /\ sectors'[state.ws.id].last_water = now'
          /\ IF cycle.curr_sector + 1 < Len(cycle.daily_plan)
                THEN /\ state' = Watering(cycle.daily_plan[cycle.curr_sector + 2])
                     /\ valves' = {cycle.daily_plan[cycle.curr_sector + 2].id}
                ELSE /\ state' = Idle
                     /\ cycle' = NoCycle
                     /\ valves' = {}
                     /\ current_mode = "Auto" => auto_plan' = Tail(auto_plan)
                     /\ current_mode = "Wizard" => wizard_plan' = Tail(wizard_plan)]_vars

\* C5 (as claimed): every WaterSector that ran to its end has exactly one logged event
C5_Claim == Len(events) = Len(completed)

\* C6: in Wizard mode a start-signal in Watering(ws) switches ws off and pauses with
\* prior state Watering(ws) and signals {signal}; cycle and index are kept
C6_PauseFromWatering ==
    [][(WeatherStep(StartSignals) /\ current_mode = "Wizard" /\ state.tag = "Watering") =>
          /\ state' = Paused(state, <<op'.signal.weather>>)
          /\ valves' = valves \ {state.ws.id}
          /\ valves' = {}
          /\ cycle' = cycle]_vars

\* C6 witness: paused by HighWind, the cycle still at its sector
C6_Witness ==
    /\ op.name = "handle_signal"
    /\ state.tag = "Paused"
    /\ state.signals = <<"HighWind">>
    /\ state.state.tag = "Watering"
    /\ cycle.some /\ cycle.daily_plan[cycle.curr_sector + 1] = state.state.ws
    /\ valves = {}

C8_Claim ==
    [][(WeatherStep(StartSignals) /\ state.tag = "Paused") =>
          /\ state'.tag = "Paused"
          /\ state'.signals =
                IF \E i \in 1..Len(state.signals) : state.signals[i] = op'.signal.weather
                   THEN state.signals
                   ELSE Append(state.signals, op'.signal.weather)]_vars

\* the start-signal a stop-signal ends
Matching(w) == IF w = "RainStop" THEN "RainStart" ELSE "HighWind"

\* C9 (as claimed): in Paused, a stop-signal removes only its matching start-signal and
\* the machine leaves Paused only when the set becomes empty
C9_Claim ==
    [][(WeatherStep(StopSignals) /\ state.tag = "Paused") =>
          LET rest == SelectSeq(state.signals, LAMBDA s : s # Matching(op'.signal.weather))
          IN IF rest # <<>>
                THEN state' = [state EXCEPT !.signals = rest]
                ELSE state'.tag # "Paused"]_vars

\* C10 (as claimed): RainStop in Wizard mode, paused for RainStart from Watering(ws):
\* back to Watering(ws), same cycle index, valve on, if is_within(now); otherwise the
\* cycle is dropped, the state is Idle and no valve is energized
C10_Claim ==
    [][(WeatherStep({"RainStop"}) /\ current_mode = "Wizard"
        /\ state.tag = "Paused" /\ state.signals = <<"RainStart">>) =>
          IF is_within(timeframe, now')
             THEN /\ state' = state.state
                  /\ cycle' = cycle
                  /\ valves' = {state.state.ws.id}
             ELSE /\ state' = Idle
                  /\ cycle' = NoCycle
                  /\ valves' = {}]_vars

\* the weather signals among the last n signals dispatched
LastDispatched(n) ==
    IF Len(dispatched) < n THEN <<>>
    ELSE SubSeq(dispatched, Len(dispatched) - n + 1, Len(dispatched))

\* C11 (as claimed): in Wizard mode, after RainStart, RainStart, RainStop brought the
\* machine back to Watering(ws), the second RainStop, inside the window and before ws
\* ends, leaves it in Watering(ws) with valve ws.id energized
C11_Claim ==
    [][(WeatherStep({"RainStop"}) /\ current_mode = "Wizard" /\ state.tag = "Watering"
        /\ LastDispatched(3) = <<[kind |-> "Weather", weather |-> "RainStart"],
                                 [kind |-> "Weather", weather |-> "RainStart"],
                                 [kind |-> "Weather", weather |-> "RainStop"]>>
        /\ sectors[state.ws.id].last_water > state.ws.start   \* ws is the sector that was paused
        /\ is_within(timeframe, now')
        /\ now' < state.ws.start + state.ws.duration) =>
          /\ state' = state
          /\ valves' = {state.ws.id}]_vars

\* the step is handle_signal(signal, now') for a signal of this kind
SignalStep(kind) ==
    /\ op'.name = "handle_signal"
    /\ op'.signal.kind = kind

\* C12: ChgMode(m) sets current_mode to m and changes nothing else, in every state;
\* and a sector that runs keeps running, in every mode, until its start + duration
C12_ChgModeOnlyMode ==
    [][/\ SignalStep("ChgMode") =>
            /\ current_mode' = op'.signal.mode
            /\ UNCHANGED <<state, cycle, valves, sectors, auto_plan, wizard_plan, timeframe>>
       /\ (UpdateStep /\ state.tag = "Watering"
            /\ now' < state.ws.start + state.ws.duration) =>
            UNCHANGED <<state, cycle, valves, current_mode>>]_vars

\* C12 witness: the mode was changed to Manual while a sector runs, and it still runs
C12_Witness ==
    /\ op = [name |-> "handle_signal", signal |-> [kind |-> "ChgMode", mode |-> "Manual"]]
    /\ current_mode = "Manual"
    /\ state.tag = "Watering"
    /\ valves = {state.ws.id}
    /\ cycle.some

\* C13 (as claimed): StopMachine acts like ChgMode(Manual) in every state: the mode is
\* Manual afterwards, state, cycle and valve are untouched
C13_Claim ==
    [][SignalStep("StopMachine") =>
          /\ current_mode' = "Manual"
          /\ UNCHANGED <<state, cycle, valves>>]_vars

\* C14: update makes no transition in state Paused, nor in Idle with mode Manual:
\* state, cycle, plan lists, progress and last_water stay as they are
C14_NoAutomaticTransition ==
    [][(UpdateStep /\ (state.tag = "Paused"
                       \/ (state.tag = "Idle" /\ current_mode = "Manual"))) =>
          UNCHANGED <<state, cycle, auto_plan, wizard_plan, sectors, valves,
                      current_mode>>]_vars

\* C14 witness: still paused after the update of a tick past the end of the paused sector
C14_Witness ==
    /\ op.name = "update"
    /\ state.tag = "Paused"
    /\ now >= state.state.ws.start + state.state.ws.duration
    /\ cycle.some

\* what a run shows of the machine, the controller aside
Observable(m) ==
    [state |-> m.state, current_mode |-> m.current_mode, cycle |-> m.cycle,
     auto_plan |-> m.auto_plan, wizard_plan |-> m.wizard_plan, sectors |-> m.sectors,
     timeframe |-> m.timeframe, valves |-> m.valves, panicked |-> m.panicked]

\* the machine with the controller answering ok
WithCtrl(ok) == [Self EXCEPT !.ctrl_ok = ok]

\* C15: from every reachable state, the tick and every signal lead to the same state,
\* cycle, plan lists and progress whether the controller answers Ok or Err
C15_ActuationBestEffort ==
    ~panicked =>
        /\ Observable(update(WithCtrl(TRUE), TickTime))
              = Observable(update(WithCtrl(FALSE), TickTime))
        /\ \A signal \in CtrlSignals :
              Observable(handle_signal(WithCtrl(TRUE), signal, TickTime))
                = Observable(handle_signal(WithCtrl(FALSE), signal, TickTime))

\* C15 witness: the cycle moved on to its second sector although the controller did
\* not switch its valve on
C15_Witness ==
    /\ op.name = "update"
    /\ state.tag = "Watering"
    /\ cycle.some /\ cycle.curr_sector = 1
    /\ state.ws.id \notin hw
    /\ ~ctrl_ok

C17_DailyAdjustOncePerDay ==
    [][/\ op'.name = "do_daily_adjustments" =>
            /\ sod(now') # last_day
            /\ last_day' = sod(now')
       /\ op'.name # "do_daily_adjustments" => last_day' = last_day
       /\ (op.name = "update" /\ sod(now') = sod(now)) =>
            op'.name # "do_daily_adjustments"]_vars

\* C17 witness: the adjustment of the second day, on its first tick
C17_Witness ==
    /\ op.name = "do_daily_adjustments"
    /\ now = DaySecs
    /\ last_day = DaySecs

\* C18: update runs only when the adjustment of the day of the tick is done; on the
\* tick of the rollover the Auto plan it consults is the one rebuilt for the new day
C18_AdjustBeforeUpdate ==
    [][UpdateStep =>
          /\ last_day = sod(now')
          /\ op.name = "do_daily_adjustments" =>
                auto_plan = load_auto_schedule(auto_schedule, now')]_vars

\* C18 witness: on the first tick of Friday the update started the sector of the
\* Friday plan that the adjustment of that tick had loaded
C18_Witness ==
    /\ op.name = "update"
    /\ now = DaySecs
    /\ current_mode = "Auto"
    /\ state.tag = "Watering"
    /\ state.ws.start = DaySecs
    /\ valves = {state.ws.id}

\* C19: the signals sent are the signals dispatched followed by the pending ones, in
\* the order sent, each once; at most one is dispatched per tick
C19_BusInOrderOnce ==
    /\ sent = dispatched \o bus
    /\ Len(dispatched) <= now

\* C19 witness: two different signals were dispatched in turn while another waits
C19_Witness ==
    /\ Len(dispatched) >= 2
    /\ dispatched[1] # dispatched[2]
    /\ bus # <<>>

\* C20 (as claimed): the Wizard plan the daily adjustment rebuilds is the same for
\* every iteration order of the sector map
C20_Claim ==
    \A o1, o2 \in SectorOrders : \A daily_et \in DailyEts, daily_rain \in DailyRains :
        do_daily_adjustments(Self, o1, TickTime, daily_et, daily_rain).wizard_plan
          = do_daily_adjustments(Self, o2, TickTime, daily_et, daily_rain).wizard_plan

\* C21: the window ends at start + duration - 1, and is_within(t) is true exactly for
\* start <= t <= end: true at start and at end, false one second before and after
C21_IsWithinBounds ==
    LET w == timeframe IN
    /\ w.day_end_time = w.day_start_time + WinDurSecs - 1
    /\ is_within(w, w.day_start_time)
    /\ is_within(w, w.day_end_time)
    /\ ~is_within(w, w.day_start_time - 1)
    /\ ~is_within(w, w.day_end_time + 1)
    /\ \A t \in (w.day_start_time - DaySecs)..(w.day_end_time + DaySecs) :
          is_within(w, t) <=> (w.day_start_time <= t /\ t <= w.day_end_time)

\* C21 witness: the window crosses midnight, and a RainStop on its last second found
\* the time within it and resumed the paused sector
C21_Witness ==
    /\ sod(timeframe.day_end_time) > sod(timeframe.day_start_time)
    /\ now = timeframe.day_end_time
    /\ op = [name |-> "handle_signal", signal |-> [kind |-> "Weather", weather |-> "RainStop"]]
    /\ current_mode = "Wizard"
    /\ state.tag = "Watering"
    /\ valves = {state.ws.id}

\* C22 (as claimed): roll(t) leaves the window as it is when t <= end, and otherwise
\* moves both endpoints by whole days until t <= end, also for a t more than a day
\* past the end
C22_Claim ==
    [][op'.name = "roll_window" =>
          IF now' <= timeframe.day_end_time
             THEN timeframe' = timeframe
             ELSE /\ \E k \in 1..3 :
                        /\ timeframe'.day_start_time = timeframe.day_start_time + k * DaySecs
                        /\ timeframe'.day_end_time = timeframe.day_end_time + k * DaySecs
                  /\ now' <= timeframe'.day_end_time]_vars

\* what the k-th call of next_sector returns, on a cycle no call was made on
RECURSIVE nth_call(_, _)
nth_call(c, k) ==
    IF k = 1 THEN next_sector(c).res ELSE nth_call(next_sector(c).cycle, k - 1)

\* the plans the machine holds
HeldPlans ==
    {auto_plan[i] : i \in 1..Len(auto_plan)} \cup {wizard_plan[i] : i \in 1..Len(wizard_plan)}

\* C23: get_cycle gives a Cycle exactly for a non-empty plan whose first start <= now;
\* the id of a Cycle is the start of its first sector, its k-th next_sector is the k-th
\* sector of the plan and None after the last; so no Cycle of the machine is empty
C23_CycleWalksPlan ==
    /\ \A p \in HeldPlans :
          /\ \A t \in 0..(MaxTime + 1) :
                get_cycle(p, t).some <=> (p # <<>> /\ p[1].start <= t)
          /\ p # <<>> =>
                /\ build(p).id = p[1].start
                /\ \A k \in 1..(Len(p) + 2) :
                      nth_call(build(p), k) =
                          IF k <= Len(p) THEN [some |-> TRUE, ws |-> p[k]] ELSE NoSector
    /\ cycle.some =>
          /\ cycle.daily_plan # <<>>
          /\ cycle.id = cycle.daily_plan[1].start
          /\ cycle.id <= now
    /\ (state.tag = "Watering" /\ cycle.some) =>
          /\ cycle.curr_sector \in 0..(Len(cycle.daily_plan) - 1)
          /\ state.ws = cycle.daily_plan[cycle.curr_sector + 1]

\* C23 witness: a cycle of two sectors ran both, the third next_sector returned None
\* and the machine went back to Idle
C23_Witness ==
    /\ op.name = "update"
    /\ state = Idle
    /\ ~cycle.some
    /\ Len(completed) >= 2
    /\ completed[1].id # completed[2].id
    /\ completed[2].start >= completed[1].start + completed[1].duration
    /\ now = completed[2].start + completed[2].duration

\* the planner has run on the sectors, time and window of this state
Planned == op.name = "calc_daily_plan"

\* C24: in every plan of the Wizard planner, a sector starts no earlier than the
\* sector before it starts, plus its duration, plus the transition slack
C24_PlanSpacing ==
    Planned =>
        \A n \in 1..Len(wizard_plan) :
            \A i \in 1..(Len(wizard_plan[n]) - 1) :
                wizard_plan[n][i + 1].start >=
                    wizard_plan[n][i].start + wizard_plan[n][i].duration + SectorTransitionSecs

\* C24 witness: a morning plan and an evening plan of two sectors each
C24_Witness ==
    /\ Planned
    /\ Len(wizard_plan) = 2
    /\ Len(wizard_plan[1]) = 2
    /\ Len(wizard_plan[2]) = 2
    /\ wizard_plan[2][1].start = timeframe.day_start_time + DaySecs

\* the sectors the planner was called with
PlanInput == sector_infos(sectors, sector_order)

\* the ids of the sectors in the plans the planner returned
PlannedIds ==
    UNION {{wizard_plan[n][i].id : i \in 1..Len(wizard_plan[n])} : n \in 1..Len(wizard_plan)}

\* the sector must be watered on a day with rem_days days after it: the days after
\* that one cannot cover what it still needs
MustWater(sector, rem_days) ==
    Max(sector.weekly_target - sector.progress, 0) > sector.max_duration * (rem_days - 1)

\* C25 (as claimed): no sector of a Wizard plan runs less than the minimum or more
\* than its max_duration; a sector due today whose irrigation time is exactly the
\* minimum is scheduled, one whose time is below the minimum is not
C25_Claim ==
    Planned =>
        /\ \A n \in 1..Len(wizard_plan) : \A i \in 1..Len(wizard_plan[n]) :
              /\ wizard_plan[n][i].duration >= MinWateringSecs
              /\ wizard_plan[n][i].duration <= SectorCfg(wizard_plan[n][i].id).max_duration
        /\ (\A k \in 1..Len(PlanInput) : PlanInput[k].weekly_target > PlanInput[k].progress) =>
              \A k \in 1..Len(PlanInput) :
                  LET time == calc_irrigation_time(PlanInput[k]) IN
                  MustWater(PlanInput[k], calculate_remaining_days(now) - 1) =>
                      /\ (time.some /\ time.val = MinWateringSecs) =>
                            PlanInput[k].id \in PlannedIds
                      /\ (~time.some \/ time.val < MinWateringSecs) =>
                            PlanInput[k].id \notin PlannedIds

\* the window w, k days later
days_later(w, k) ==
    [day_start_time |-> w.day_start_time + k * DaySecs,
     day_end_time   |-> w.day_end_time + k * DaySecs]

\* C26 (as claimed): every plan the Wizard planner returns lies entirely inside one
\* window: the one passed in, or that window some days later
C26_Claim ==
    Planned =>
        \A n \in 1..Len(wizard_plan) :
            \E k \in 0..WeekDays :
                \A i \in 1..Len(wizard_plan[n]) :
                    /\ wizard_plan[n][i].start >= days_later(timeframe, k).day_start_time
                    /\ wizard_plan[n][i].start + wizard_plan[n][i].duration
                          <= days_later(timeframe, k).day_end_time

\* C27 (as claimed): the last sector of the morning plan ends at the end of its
\* window, and every earlier sector ends the transition slack before the next starts
C27_Claim ==
    (Planned /\ wizard_plan # <<>>) =>
        LET morning == wizard_plan[1]
            last == morning[Len(morning)]
        IN /\ \E k \in 0..WeekDays :
                 last.start + last.duration = days_later(timeframe, k).day_end_time
           /\ \A i \in 1..(Len(morning) - 1) :
                 morning[i].start + morning[i].duration + SectorTransitionSecs
                     = morning[i + 1].start

\* the first plan returned is the morning plan of the window passed in
PlanIsForToday ==
    /\ wizard_plan # <<>>
    /\ LET last == wizard_plan[1][Len(wizard_plan[1])]
       IN last.start + last.duration + SectorTransitionSecs = timeframe.day_end_time

\* the sectors of today's morning plan
TodayIds ==
    IF PlanIsForToday
       THEN {wizard_plan[1][i].id : i \in 1..Len(wizard_plan[1])}
       ELSE {}

\* C28 (as claimed): with remaining_days = 7 - num_days_from_sunday, a sector is in
\* today's morning plan exactly when need > capacity * (remaining_days - 1) and its
\* irrigation time reaches the threshold; and a plan returned is for the window passed in
C28_Claim ==
    Planned =>
        /\ \A k \in 1..Len(PlanInput) :
              LET time == calc_irrigation_time(PlanInput[k]) IN
              PlanInput[k].id \in TodayIds <=>
                  /\ MustWater(PlanInput[k], calculate_remaining_days(now))
                  /\ time.some
                  /\ time.val >= MinWateringSecs
        /\ wizard_plan # <<>> => PlanIsForToday

\* the step is a daily adjustment, with its inputs recorded
AdjustStep == op'.name = "do_daily_adjustments"

\* C29: with one adjustment per day, the adjustment of a Monday takes the new-week
\* term off the progress and the adjustment of every other weekday does not
C29_NewWeekTermOnMonday ==
    [][AdjustStep =>
          /\ last_day \in {NoDay, sod(now') - DaySecs}
          /\ \A i \in Sectors :
                LET daily == op'.daily_et - op'.daily_rain + SectorCfg(i).percolation
                IN IF get_week_day_from_ts(now') = 0
                      THEN sectors'[i].progress =
                              Max(sectors[i].progress - daily - NewWeekBump, 0)
                      ELSE sectors'[i].progress = Max(sectors[i].progress - daily, 0)]_vars

\* C29 witness: the adjustment of the first Monday, on a dry day; a sector had more
\* progress than the new-week term takes off, and keeps the rest
C29_Witness ==
    /\ op = [name |-> "do_daily_adjustments", daily_et |-> 0, daily_rain |-> 0]
    /\ get_week_day_from_ts(now) = 0
    /\ now = 4 * DaySecs
    /\ \E i \in Sectors : sectors[i].progress > 0

\* C30 (as claimed): a daily adjustment leaves every progress at most its weekly
\* target, when it was so before
C30_Claim ==
    [][(AdjustStep /\ \A i \in Sectors : sectors[i].progress <= SectorCfg(i).weekly_target) =>
          \A i \in Sectors : sectors'[i].progress <= SectorCfg(i).weekly_target]_vars

\* C32: while the machine runs, cycle is Some exactly when the state is Watering or
\* Paused; Watering(ws) has ws = the plan element at curr_sector; Paused holds the
\* prior state Watering(ws) with that same ws
C32_CycleMatchesState ==
    ~panicked =>
        /\ cycle.some <=> state.tag \in {"Watering", "Paused"}
        /\ state.tag = "Watering" =>
              /\ cycle.curr_sector \in 0..(Len(cycle.daily_plan) - 1)
              /\ state.ws = cycle.daily_plan[cycle.curr_sector + 1]
        /\ state.tag = "Paused" =>
              /\ state.state.tag = "Watering"
              /\ state.state.ws = cycle.daily_plan[cycle.curr_sector + 1]

\* C32 witness: paused in the second sector of a cycle, after a change of mode
C32_Witness ==
    /\ state.tag = "Paused"
    /\ cycle.some /\ cycle.curr_sector = 1
    /\ state.state = Watering(cycle.daily_plan[2])
    /\ current_mode # "Wizard"

\* C33 (as claimed): in Paused the signal set is non-empty, without duplicates, and
\* holds start-signals only
C33_Claim ==
    state.tag = "Paused" =>
        /\ state.signals # <<>>
        /\ \A i, j \in 1..Len(state.signals) : i # j => state.signals[i] # state.signals[j]
        /\ \A i \in 1..Len(state.signals) : state.signals[i] \in StartSignals

\* the list without its i-th plan
RemoveAt(list, i) == SubSeq(list, 1, i - 1) \o SubSeq(list, i + 1, Len(list))

\* C34 (as claimed): on a step that ends the cycle (and returns), the plan the cycle
\* was built from is removed from one plan list, and nothing else is removed
C34_Claim ==
    [][(cycle.some /\ ~cycle'.some /\ ~panicked') =>
          \/ /\ wizard_plan' = wizard_plan
             /\ \E i \in 1..Len(auto_plan) :
                   auto_plan[i] = cycle.daily_plan /\ auto_plan' = RemoveAt(auto_plan, i)
          \/ /\ auto_plan' = auto_plan
             /\ \E i \in 1..Len(wizard_plan) :
                   wizard_plan[i] = cycle.daily_plan /\ wizard_plan' = RemoveAt(wizard_plan, i)]_vars

\* C35 (as claimed): stop() never panics
C35_Claim == ~panicked

\* every sector of the plan ran to its end since the last daily adjustment
RanSinceAdjustment(plan) ==
    \A i \in 1..Len(plan) :
        \E k \in 1..Len(completed) :
            /\ completed[k] = plan[i]
            /\ plan[i].start + plan[i].duration >= last_day

\* C36 (as claimed): no update starts a cycle from a plan whose cycle has completed
\* since the last daily adjustment
C36_Claim ==
    [][(UpdateStep /\ state.tag = "Idle" /\ state'.tag = "Watering") =>
          ~RanSinceAdjustment(cycle'.daily_plan)]_vars

\* the sector is due on the day of the call and its irrigation time is above the minimum
NeedsWateringToday(sector) ==
    LET time == calc_irrigation_time(sector) IN
    /\ MustWater(sector, calculate_remaining_days(now) - 1)
    /\ time.some /\ time.val > MinWateringSecs

RanOnTime(ws) ==
    /\ last_day = 0
    /\ \E k \in 1..Len(completed) : completed[k] = ws
    /\ \A k, l \in 1..Len(completed) : completed[k].id = completed[l].id => k = l
    /\ sectors[ws.id].last_water = ws.start + ws.duration
    /\ ~(state.tag = "Watering" /\ state.ws.id = ws.id)

\* C37 (as claimed): a sector activated on the tick of ws.start and run without pause
\* under a 1-second tick is credited ws.duration increments of progress
C37_Claim ==
    \A k \in 1..Len(completed) :
        RanOnTime(completed[k]) =>
            sectors[completed[k].id].progress = completed[k].duration

\* a step of ModeWizard::handle_signal with the signal env_signal
WizardSignalStep(W) ==
    /\ op'.name = "handle_signal"
    /\ op'.signal.kind = "Environmental"
    /\ op'.signal.signal \in W
    /\ current_mode = "Wizard"

\* C31: a start signal with a cycle and no snapshot saves (state, cycle, index) and
\* leaves the machine Idle without cycle; a stop signal with a snapshot restores the
\* three and clears the snapshot; a start signal with a snapshot and a stop signal
\* without one change nothing
C31_PauseSnapshot ==
    [][/\ (WizardSignalStep(StartSignals) /\ cycle.some /\ ~paused_state.some) =>
             /\ paused_state' = [some |-> TRUE, state |-> state, cycle |-> cycle,
                                 instruction |-> current_instruction]
             /\ state' = Idle
             /\ cycle' = NoCycle
       /\ (WizardSignalStep(StopSignals) /\ paused_state.some) =>
             /\ state' = paused_state.state
             /\ cycle' = paused_state.cycle
             /\ current_instruction' = paused_state.instruction
             /\ paused_state' = NoSnapshot
       /\ (WizardSignalStep(StartSignals) /\ paused_state.some) =>
             UNCHANGED <<paused_state, state, cycle, current_instruction>>
       /\ (WizardSignalStep(StopSignals) /\ ~paused_state.some) =>
             UNCHANGED <<paused_state, state, cycle, current_instruction>>]_vars

\* a stop signal has just restored a snapshot taken while sector 1 was being activated,
\* over a machine that had been given another cycle in the meantime
C31_Witness ==
    /\ op.name = "handle_signal"
    /\ op.signal = [kind |-> "Environmental", signal |-> "LowWind"]
    /\ op.mode = "Wizard"
    /\ op.before.paused_state.some
    /\ op.before.cycle.some
    /\ op.before.cycle # op.before.paused_state.cycle
    /\ state = Activating(1)
    /\ cycle = op.before.paused_state.cycle
    /\ ~paused_state.some

\* get_state waits for state_machine while it holds active_mode
GetStateBlocked ==
    /\ pc.http = "state_machine.read"
    /\ "http" \in locks.active_mode.r
    /\ ~CanRead("state_machine")

\* the dispatcher waits for active_mode while it holds state_machine for an Environmental signal
DispatcherBlocked ==
    /\ pc.disp = "handle_signal"
    /\ pc.signal \in EnvironmentalSignals
    /\ locks.state_machine.w = "disp"
    /\ ~CanWrite("active_mode")

\* C39 (as claimed): get_state and the dispatcher handling an Environmental signal
\* never wait for each other
C39_Claim == ~(GetStateBlocked /\ DispatcherBlocked)

\* C40 (as claimed): update never waits for the write lock of state_machine while it
\* holds the read lock of state_machine
C40_Claim == ~(pc.disp = "update.write" /\ "disp" \in locks.state_machine.r)

====
